---- MODULE Spec2Model ----
(***************************************************************************)
(* Model of my_calculate_fid.py: calculate_frechet_distance and            *)
(* calculate_activation_statistics.                                        *)
(*                                                                         *)
(* Numbers are fixed point.  Means, covariances and the matrix square root *)
(* are counted in units of eps (1e-6), so eps is 1, the tolerance 1e-3 of  *)
(* np.allclose is 1000 and the number 1.0 is One.  A product of two such   *)
(* numbers (the covariance product, diff.dot(diff), the returned distance) *)
(* is counted in units of eps^2, so a trace enters the distance times One. *)
(* A number that may be non-finite is a record [nan, v].                   *)
(***************************************************************************)
EXTENDS Integers, Sequences, FiniteSets

VARIABLES
    pc,          \* position in calculate_frechet_distance
    mu1, sigma1, mu2, sigma2,   \* the parameters (rebound by atleast_1d/2d)
    args,        \* the arguments as passed in (never rebound)
    diff,        \* mu1 - mu2, <<>> before it is computed
    covmean,     \* the local covmean
    kept,        \* the last result of linalg.sqrtm
    calls,       \* the arguments of the sqrtm calls made so far
    out,         \* what was printed
    err,         \* the exception raised: [type, m]
    value,       \* <<the returned distance>>, <<>> before the return
    spc,         \* position in calculate_activation_statistics
    config,      \* [batch]: config.batch
    feat,        \* number of features the extractor yields per image
    dataloader,  \* the number of images of each batch it yields
    it,          \* number of batches the for loop has fetched
    true_vecs, ae_vecs,   \* the lists of feature blocks [rows, cols, nan]
    pics,        \* the reconstructed images: [rows, nan_values]
    printed,     \* what was printed
    true_data, ae_data,   \* the stacked feature matrices [rows, cols]
    ret,         \* the shapes of the returned mu1, s1, mu2, s2
    serr         \* the exception raised, "" for none

fvars == <<pc, mu1, sigma1, mu2, sigma2, args, diff, covmean, kept, calls, out, err, value>>
svars == <<spc, config, feat, dataloader, it, true_vecs, ae_vecs, pics, printed,
           true_data, ae_data, ret, serr>>
vars == <<fvars, svars>>

\* Largest magnitude of an entry of a mean or a covariance.
MaxVal == 2
\* Largest config.batch, feature count, number of batches, NaN count.
MaxBatch == 2
MaxFeat == 2
MaxBatches == 3
MaxNan == 1

\* eps=1e-6, the unit of the fixed-point numbers.
Eps == 1
\* atol=1e-3 in units of eps.
Atol == 1000
\* 1.0 in units of eps.
One == 1000000

----------------------------------------------------------------------------
(* Numbers that may be non-finite *)

Fin(n) == [nan |-> FALSE, v |-> n]
NaN == [nan |-> TRUE, v |-> 0]

VAdd(a, b) == IF a.nan \/ b.nan THEN NaN ELSE Fin(a.v + b.v)
VScale(k, a) == IF a.nan THEN NaN ELSE Fin(k * a.v)
Abs(n) == IF n < 0 THEN -n ELSE n

RECURSIVE SumSeq(_)
SumSeq(s) == IF s = <<>> THEN 0 ELSE Head(s) + SumSeq(Tail(s))

RECURSIVE VSum(_)
VSum(s) == IF s = <<>> THEN Fin(0) ELSE VAdd(Head(s), VSum(Tail(s)))

----------------------------------------------------------------------------
(* Arrays: [shape, data], data in row-major order *)

Arr(shape, data) == [shape |-> shape, data |-> data]

\* np.atleast_1d: a 0-d array becomes 1-d of length 1.
atleast_1d(a) == IF a.shape = <<>> THEN Arr(<<1>>, a.data) ELSE a

\* np.atleast_2d: a 0-d array becomes 1 x 1, a 1-d array of length n becomes 1 x n.
atleast_2d(a) ==
    CASE Len(a.shape) = 0 -> Arr(<<1, 1>>, a.data)
      [] Len(a.shape) = 1 -> Arr(<<1, a.shape[1]>>, a.data)
      [] OTHER -> a

At(m, i, j) == m.data[(i - 1) * m.shape[2] + j]

\* a.dot(b) for 2-d arrays.
Dot(a, b) ==
    LET r == a.shape[1]
        n == a.shape[2]
        c == b.shape[2]
    IN Arr(<<r, c>>,
           [k \in 1..(r * c) |->
               LET i == ((k - 1) \div c) + 1
                   j == ((k - 1) % c) + 1
               IN SumSeq([t \in 1..n |-> At(a, i, t) * At(b, t, j)])])

\* np.eye(n) * eps
Offset(n) ==
    Arr(<<n, n>>, [k \in 1..(n * n) |->
                      IF (k - 1) \div n = (k - 1) % n THEN Eps ELSE 0])

MatAdd(a, b) == Arr(a.shape, [k \in 1..Len(a.data) |-> a.data[k] + b.data[k]])

\* Flat indices of the main diagonal (np.diagonal, np.trace).
DiagIdx(shape) ==
    LET n == IF shape[1] < shape[2] THEN shape[1] ELSE shape[2]
    IN [i \in 1..n |-> (i - 1) * shape[2] + i]

Trace(m) == SumSeq([i \in 1..Len(DiagIdx(m.shape)) |-> m.data[DiagIdx(m.shape)[i]]])

\* diff.dot(diff) for 1-d arrays.
Dot1(d) == SumSeq([i \in 1..Len(d) |-> d[i] * d[i]])

----------------------------------------------------------------------------
(* Inputs of calculate_frechet_distance *)

InputVals == {0, MaxVal}

\* A mean: a scalar or a vector of length 1 or 2.
MuInputs ==
    {Arr(<<>>, <<x>>) : x \in InputVals}
      \cup {Arr(<<1>>, <<x>>) : x \in InputVals}
      \cup {Arr(<<2>>, <<x, y>>) : x \in InputVals, y \in InputVals}

\* A covariance as np.cov returns it: a scalar (one feature), here also as a
\* 1-d array of one entry, or a symmetric positive semi-definite 2 x 2 matrix.
SigmaInputs ==
    {Arr(<<>>, <<x>>) : x \in InputVals}
      \cup {Arr(<<1>>, <<x>>) : x \in InputVals}
      \cup {Arr(<<2, 2>>, <<a, b, b, d>>) : a \in InputVals, b \in InputVals, d \in InputVals}

IsPSD(s) ==
    \/ Len(s.data) = 1 /\ s.data[1] >= 0
    \/ /\ Len(s.data) = 4
       /\ s.data[2] = s.data[3]
       /\ s.data[1] >= 0 /\ s.data[4] >= 0
       /\ s.data[1] * s.data[4] >= s.data[2] * s.data[3]

----------------------------------------------------------------------------
(***************************************************************************)
(* scipy.linalg.sqrtm: a complex or real matrix of the argument's shape.   *)
(* Its real part is the principal square root of the argument, rounded     *)
(* down to the fixed-point grid; numerical error may add an imaginary      *)
(* residual and, for a singular product, non-finite entries.               *)
(***************************************************************************)

NoMat == [cplx |-> FALSE, shape |-> <<0, 0>>, re |-> <<>>, im |-> <<>>]

ISqrt(a) == CHOOSE r \in 0..a : r * r <= a /\ a < (r + 1) * (r + 1)

\* The principal square root of a 1 x 1 or 2 x 2 matrix with non-negative
\* trace and determinant (a product of two covariances):
\* sqrt(A) = (A + sqrt(det A) I) / sqrt(tr A + 2 sqrt(det A)).
PrincipalRoot(a) ==
    IF Len(a.data) = 1 THEN <<ISqrt(a.data[1])>>
    ELSE LET s == ISqrt(a.data[1] * a.data[4] - a.data[2] * a.data[3])
             t == ISqrt(a.data[1] + a.data[4] + 2 * s)
         IN IF t = 0 THEN <<0, 0, 0, 0>>
            ELSE <<(a.data[1] + s) \div t, a.data[2] \div t,
                   a.data[3] \div t, (a.data[4] + s) \div t>>

\* Flat indices off the main diagonal that may carry a residual.
OffIdx(shape) == IF shape[1] * shape[2] > 1 THEN {2} ELSE {}

\* The imaginary residuals: at most one on the diagonal (inside the
\* tolerance, at its edge or outside it) and one off the diagonal.
ImagParts(shape) ==
    LET n == shape[1] * shape[2]
        dg == DiagIdx(shape)
    IN {[k \in 1..n |-> IF k = dg[i] THEN dv ELSE IF k \in OffIdx(shape) THEN ov ELSE 0] :
            i \in 1..Len(dg),
            dv \in {0, Atol, Atol + 1, -(Atol + 1)},
            ov \in {0, Atol + 2}}

\* Where a non-finite entry may sit: nowhere (0), on or off the diagonal.
NanAt(shape) == {0, 1} \cup OffIdx(shape)

SqrtmOutcomes(a) ==
    LET n == Len(a.data)
        res(c, r, j, z) ==
            [cplx |-> c,
             shape |-> a.shape,
             re |-> [k \in 1..n |-> IF k = z THEN NaN ELSE Fin(r[k])],
             im |-> [k \in 1..n |-> IF c /\ k = z THEN NaN ELSE Fin(j[k])]]
        zero == [k \in 1..n |-> 0]
        roots == {PrincipalRoot(a)}
    IN {res(FALSE, r, zero, z) : r \in roots, z \in NanAt(a.shape)}
         \cup {res(TRUE, r, j, z) :
                  r \in roots, j \in ImagParts(a.shape), z \in NanAt(a.shape)}

----------------------------------------------------------------------------
(* The numpy predicates and reductions the routine applies to covmean *)

IsFiniteAll_DiagonalOnly(m) ==
    \A i \in 1..Len(DiagIdx(m.shape)) :
        ~m.re[DiagIdx(m.shape)[i]].nan /\ ~m.im[DiagIdx(m.shape)[i]].nan

\* np.isfinite(covmean).all()
IsFiniteAll(m) == \A k \in 1..Len(m.re) : ~m.re[k].nan /\ ~m.im[k].nan

\* np.diagonal(covmean).imag
DiagImag(m) == [i \in 1..Len(DiagIdx(m.shape)) |-> m.im[DiagIdx(m.shape)[i]]]

AllCloseZero_Loose(xs) == \A i \in 1..Len(xs) : ~xs[i].nan /\ Abs(xs[i].v) <= Atol + 1

\* np.allclose(xs, 0, atol=1e-3): |x - 0| <= atol + rtol * |0|, false for NaN.
AllCloseZero(xs) == \A i \in 1..Len(xs) : ~xs[i].nan /\ Abs(xs[i].v) <= Atol

MaxAbsImag_NoAbs(m) ==
    IF \E k \in 1..Len(m.im) : m.im[k].nan THEN NaN
    ELSE Fin(CHOOSE x \in {m.im[k].v : k \in 1..Len(m.im)} :
                \A k \in 1..Len(m.im) : m.im[k].v <= x)

\* np.max(np.abs(covmean.imag)): NaN as soon as one entry is NaN.
MaxAbsImag(m) ==
    IF \E k \in 1..Len(m.im) : m.im[k].nan THEN NaN
    ELSE Fin(CHOOSE x \in {Abs(m.im[k].v) : k \in 1..Len(m.im)} :
                \A k \in 1..Len(m.im) : Abs(m.im[k].v) <= x)

\* covmean.real
RealPart(m) == [cplx |-> FALSE, shape |-> m.shape, re |-> m.re,
                im |-> [k \in 1..Len(m.im) |-> Fin(0)]]

\* np.trace(covmean)
TraceCov(m) == VSum([i \in 1..Len(DiagIdx(m.shape)) |-> m.re[DiagIdx(m.shape)[i]]])

Distance_SingleTrace(d, s1, s2, tr_covmean) ==
    VAdd(Fin(Dot1(d) + One * Trace(s1) + One * Trace(s2)),
         VScale(-One, tr_covmean))

\* diff.dot(diff) + np.trace(sigma1) + np.trace(sigma2) - 2 * tr_covmean
Distance(d, s1, s2, tr_covmean) ==
    VAdd(Fin(Dot1(d) + One * Trace(s1) + One * Trace(s2)),
         VScale(-2 * One, tr_covmean))

ShapesAgree_MeansOnly(m1, s1, m2, s2) == m1.shape = m2.shape

\* the two assert statements
ShapesAgree(m1, s1, m2, s2) == m1.shape = m2.shape /\ s1.shape = s2.shape

NoErr == [type |-> "", m |-> Fin(0)]


----------------------------------------------------------------------------
(* Tensors of calculate_activation_statistics, by shape *)

NoData == [rows |-> 0, cols |-> 0]
NoRet == [mu1 |-> <<>>, s1 |-> <<>>, mu2 |-> <<>>, s2 |-> <<>>]
NoPics == [rows |-> 0, nan_values |-> 0]

StatsIdle ==
    /\ spc = "idle"
    /\ config = [batch |-> 0] /\ feat = 0 /\ dataloader = <<>> /\ it = 0
    /\ true_vecs = <<>> /\ ae_vecs = <<>> /\ pics = NoPics /\ printed = <<>>
    /\ true_data = NoData /\ ae_data = NoData /\ ret = NoRet /\ serr = ""

\* t.reshape(bs, -1) of a tensor with numel elements: possible when bs divides numel.
CanReshape(numel, bs) == numel % bs = 0
Reshape(numel, bs, nan) == [rows |-> bs, cols |-> numel \div bs, nan |-> nan]

\* torch.stack(vecs): a non-empty list of tensors of one shape.
CanStack(vecs) ==
    /\ vecs # <<>>
    /\ \A i \in 1..Len(vecs) :
          vecs[i].rows = vecs[1].rows /\ vecs[i].cols = vecs[1].cols

\* torch.stack(vecs).view(rows, -1)
CanView(vecs, rows) ==
    rows > 0 /\ (Len(vecs) * vecs[1].rows * vecs[1].cols) % rows = 0
StackView(vecs, rows) ==
    [rows |-> rows, cols |-> (Len(vecs) * vecs[1].rows * vecs[1].cols) \div rows]

\* data.mean(axis=1): one entry per row.
MeanShape(data) == <<data.rows>>

\* np.cov(data, rowvar=False): one variable per column; 0-d for one column.
CovShape(data) == IF data.cols = 1 THEN <<>> ELSE <<data.cols, data.cols>>

----------------------------------------------------------------------------
(* calculate_frechet_distance *)

Init ==
    /\ pc = "start"
    /\ mu1 \in MuInputs /\ mu2 \in MuInputs
    /\ sigma1 \in {s \in SigmaInputs : IsPSD(s)}
    /\ sigma2 \in {s \in SigmaInputs : IsPSD(s)}
    /\ args = [mu1 |-> mu1, sigma1 |-> sigma1, mu2 |-> mu2, sigma2 |-> sigma2]
    /\ diff = <<>>
    /\ covmean = NoMat /\ kept = NoMat
    /\ calls = <<>> /\ out = <<>>
    /\ err = NoErr
    /\ value = <<>>
    /\ StatsIdle

\* atleast_1d, atleast_2d and the two asserts.
CheckShapes ==
    /\ pc = "start"
    /\ mu1' = atleast_1d(mu1) /\ mu2' = atleast_1d(mu2)
    /\ sigma1' = atleast_2d(sigma1) /\ sigma2' = atleast_2d(sigma2)
    /\ IF ShapesAgree(mu1', sigma1', mu2', sigma2')
       THEN pc' = "asserted" /\ err' = err
       ELSE pc' = "raised" /\ err' = [type |-> "AssertionError", m |-> Fin(0)]
    /\ UNCHANGED <<args, diff, covmean, kept, calls, out, value, svars>>

\* diff = mu1 - mu2
Diff ==
    /\ pc = "asserted"
    /\ diff' = [i \in 1..Len(mu1.data) |-> mu1.data[i] - mu2.data[i]]
    /\ pc' = "diffed"
    /\ UNCHANGED <<mu1, sigma1, mu2, sigma2, args, covmean, kept, calls, out, err, value, svars>>

\* covmean, _ = linalg.sqrtm(sigma1.dot(sigma2), disp=False)
Sqrtm1 ==
    /\ pc = "diffed"
    /\ IF sigma1.shape[2] = sigma2.shape[1]
       THEN /\ LET a == Dot(sigma1, sigma2)
               IN /\ calls' = Append(calls, a)
                  /\ \E x \in SqrtmOutcomes(a) : covmean' = x /\ kept' = x
            /\ pc' = "sqrt1"
            /\ err' = err
       ELSE \* sigma1.dot(sigma2): shapes not aligned
            /\ pc' = "raised"
            /\ err' = [type |-> "ValueError", m |-> Fin(0)]
            /\ UNCHANGED <<calls, covmean, kept, svars>>
    /\ UNCHANGED <<mu1, sigma1, mu2, sigma2, args, diff, out, value, svars>>

Regularize_Rebinds ==
    /\ pc = "sqrt1"
    /\ ~IsFiniteAll(covmean)
    /\ out' = Append(out, [msg |-> "singular product", eps |-> Eps])
    /\ sigma1' = MatAdd(sigma1, Offset(sigma1.shape[1]))
    /\ sigma2' = MatAdd(sigma2, Offset(sigma1.shape[1]))
    /\ LET a == Dot(sigma1', sigma2')
       IN /\ calls' = Append(calls, a)
          /\ \E x \in SqrtmOutcomes(a) : covmean' = x /\ kept' = x
    /\ pc' = "sqrt2"
    /\ UNCHANGED <<mu1, mu2, args, diff, err, value, svars>>

\* if not np.isfinite(covmean).all(): print, offset, sqrtm again
Regularize ==
    /\ pc = "sqrt1"
    /\ ~IsFiniteAll(covmean)
    /\ out' = Append(out, [msg |-> "singular product", eps |-> Eps])
    /\ LET offset == Offset(sigma1.shape[1])
           a == Dot(MatAdd(sigma1, offset), MatAdd(sigma2, offset))
       IN /\ calls' = Append(calls, a)
          /\ \E x \in SqrtmOutcomes(a) : covmean' = x /\ kept' = x
    /\ pc' = "sqrt2"
    /\ UNCHANGED <<mu1, sigma1, mu2, sigma2, args, diff, err, value, svars>>

\* Control is at "if np.iscomplexobj(covmean)".
AtImagCheck == pc = "sqrt2" \/ (pc = "sqrt1" /\ IsFiniteAll(covmean))

\* raise ValueError('Imaginary component {}'.format(m))
RaiseImaginary ==
    /\ AtImagCheck
    /\ covmean.cplx
    /\ ~AllCloseZero(DiagImag(covmean))
    /\ err' = [type |-> "ValueError", m |-> MaxAbsImag(covmean)]
    /\ pc' = "raised"
    /\ UNCHANGED <<mu1, sigma1, mu2, sigma2, args, diff, covmean, kept, calls, out, value, svars>>

\* covmean = covmean.real; tr_covmean = np.trace(covmean); return ...
Return ==
    /\ AtImagCheck
    /\ covmean.cplx => AllCloseZero(DiagImag(covmean))
    /\ covmean' = IF covmean.cplx THEN RealPart(covmean) ELSE covmean
    /\ value' = <<Distance(diff, sigma1, sigma2, TraceCov(covmean'))>>
    /\ pc' = "done"
    /\ UNCHANGED <<mu1, sigma1, mu2, sigma2, args, diff, kept, calls, out, err, svars>>

Next == CheckShapes \/ Diff \/ Sqrtm1 \/ Regularize \/ RaiseImaginary \/ Return

Spec == Init /\ [][Next]_vars

----------------------------------------------------------------------------
(* calculate_activation_statistics *)

FrechetIdle ==
    /\ pc = "idle"
    /\ mu1 = Arr(<<>>, <<0>>) /\ mu2 = mu1 /\ sigma1 = mu1 /\ sigma2 = mu1
    /\ args = [mu1 |-> mu1, sigma1 |-> sigma1, mu2 |-> mu2, sigma2 |-> sigma2]
    /\ diff = <<>> /\ covmean = NoMat /\ kept = NoMat
    /\ calls = <<>> /\ out = <<>> /\ err = NoErr /\ value = <<>>

\* The batches a loader yields: all of config.batch images but, possibly, the last.
Loaders(bs) ==
    {<<>>} \cup
    {[i \in 1..n |-> IF i = n THEN last ELSE bs] : n \in 1..MaxBatches, last \in 1..bs}

InitStats ==
    /\ FrechetIdle
    /\ spc = "loop"
    /\ config \in [batch : 1..MaxBatch]
    /\ feat \in 1..MaxFeat
    /\ dataloader \in Loaders(config.batch)
    /\ it = 0
    /\ true_vecs = <<>> /\ ae_vecs = <<>>
    /\ pics = NoPics /\ printed = <<>>
    /\ true_data = NoData /\ ae_data = NoData /\ ret = NoRet /\ serr = ""

\* for image, _ in dataloader: the next batch
NextBatch ==
    /\ spc = "loop"
    /\ it < Len(dataloader)
    /\ it' = it + 1
    /\ spc' = "true"
    /\ UNCHANGED <<config, feat, dataloader, true_vecs, ae_vecs, pics, printed,
                   true_data, ae_data, ret, serr, fvars>>

\* for image, _ in dataloader: exhausted
EndLoop ==
    /\ spc = "loop"
    /\ it = Len(dataloader)
    /\ spc' = "stack"
    /\ UNCHANGED <<config, feat, dataloader, it, true_vecs, ae_vecs, pics, printed,
                   true_data, ae_data, ret, serr, fvars>>

AppendTrue_SkipShort ==
    /\ spc = "true"
    /\ IF dataloader[it] < config.batch
       THEN spc' = "sample" /\ UNCHANGED <<true_vecs, serr>>
       ELSE /\ true_vecs' = Append(true_vecs, Reshape(dataloader[it] * feat, config.batch, FALSE))
            /\ spc' = "sample" /\ serr' = serr
    /\ UNCHANGED <<config, feat, dataloader, it, ae_vecs, pics, printed,
                   true_data, ae_data, ret, fvars>>

\* true_vecs.append(inception(image)[0].reshape(bs, -1))
AppendTrue ==
    /\ spc = "true"
    /\ IF CanReshape(dataloader[it] * feat, config.batch)
       THEN /\ true_vecs' = Append(true_vecs, Reshape(dataloader[it] * feat, config.batch, FALSE))
            /\ spc' = "sample" /\ serr' = serr
       ELSE /\ spc' = "raised" /\ serr' = "reshape"
            /\ true_vecs' = true_vecs
    /\ UNCHANGED <<config, feat, dataloader, it, ae_vecs, pics, printed,
                   true_data, ae_data, ret, fvars>>

Reverse_SkipNan ==
    /\ spc = "sample"
    /\ \E n \in 0..MaxNan :
          /\ pics' = [rows |-> config.batch, nan_values |-> n]
          /\ IF n > 0
             THEN /\ printed' = Append(printed, [size |-> config.batch, nan_values |-> n])
                  /\ spc' = "loop"
             ELSE /\ printed' = printed
                  /\ spc' = "ae"
    /\ UNCHANGED <<config, feat, dataloader, it, true_vecs, ae_vecs,
                   true_data, ae_data, ret, serr, fvars>>

\* z_sample; pics = model.reverse(z_sample); nan_values; print when > 0
Reverse ==
    /\ spc = "sample"
    /\ \E n \in 0..MaxNan :
          /\ pics' = [rows |-> config.batch, nan_values |-> n]
          /\ printed' = IF n > 0
                        THEN Append(printed, [size |-> config.batch, nan_values |-> n])
                        ELSE printed
    /\ spc' = "ae"
    /\ UNCHANGED <<config, feat, dataloader, it, true_vecs, ae_vecs,
                   true_data, ae_data, ret, serr, fvars>>

\* ae_vecs.append(inception(pics)[0].reshape(bs, -1))
AppendAe ==
    /\ spc = "ae"
    /\ ae_vecs' = Append(ae_vecs, Reshape(pics.rows * feat, config.batch, pics.nan_values > 0))
    /\ spc' = "loop"
    /\ UNCHANGED <<config, feat, dataloader, it, true_vecs, pics, printed,
                   true_data, ae_data, ret, serr, fvars>>

\* torch.stack(...).detach().cpu().view(bs * len(dataloader), -1).numpy(), twice
Stack ==
    /\ spc = "stack"
    /\ LET rows == config.batch * Len(dataloader)
       IN IF /\ CanStack(true_vecs) /\ CanView(true_vecs, rows)
             /\ CanStack(ae_vecs) /\ CanView(ae_vecs, rows)
          THEN /\ true_data' = StackView(true_vecs, rows)
               /\ ae_data' = StackView(ae_vecs, rows)
               /\ spc' = "stacked" /\ serr' = serr
          ELSE /\ spc' = "raised" /\ serr' = "stack"
               /\ UNCHANGED <<true_data, ae_data>>
    /\ UNCHANGED <<config, feat, dataloader, it, true_vecs, ae_vecs, pics, printed,
                   ret, fvars>>

\* mu1, mu2 = mean(axis=1); s1, s2 = np.cov(rowvar=False); return
Statistics ==
    /\ spc = "stacked"
    /\ ret' = [mu1 |-> MeanShape(true_data), s1 |-> CovShape(true_data),
               mu2 |-> MeanShape(ae_data), s2 |-> CovShape(ae_data)]
    /\ spc' = "returned"
    /\ UNCHANGED <<config, feat, dataloader, it, true_vecs, ae_vecs, pics, printed,
                   true_data, ae_data, serr, fvars>>

NextStats == NextBatch \/ EndLoop \/ AppendTrue \/ Reverse \/ AppendAe \/ Stack \/ Statistics

SpecStats == InitStats /\ [][NextStats]_vars

----------------------------------------------------------------------------
(* Properties of calculate_frechet_distance *)

Returned == pc = "done"
Raised(t) == pc = "raised" /\ err.type = t

\* An imaginary part outside the 1e-3 tolerance around 0.
OutsideTol(x) == x.nan \/ x.v > Atol \/ x.v < -Atol

DiagOf(m) == {DiagIdx(m.shape)[i] : i \in 1..Len(DiagIdx(m.shape))}

\* m is the largest absolute imaginary part of the matrix (NaN when one is NaN).
IsLargestImag(m, mat) ==
    IF \E k \in 1..Len(mat.im) : mat.im[k].nan THEN m.nan
    ELSE /\ ~m.nan
         /\ \A k \in 1..Len(mat.im) : mat.im[k].v <= m.v /\ -mat.im[k].v <= m.v
         /\ \E k \in 1..Len(mat.im) : mat.im[k].v = m.v \/ -mat.im[k].v = m.v

\* C1 as stated: whenever the square root kept after the optional retry has
\* some entry whose imaginary part is outside the tolerance, the call raises
\* ValueError carrying the largest absolute imaginary part and returns nothing.
C1_AnyImagRaises ==
    (/\ pc \in {"done", "raised"}
     /\ \E k \in 1..Len(kept.im) : OutsideTol(kept.im[k]))
        => /\ Raised("ValueError")
           /\ IsLargestImag(err.m, kept)
           /\ value = <<>>

\* C1 amended: whenever the square root kept after the optional retry has a
\* diagonal entry whose imaginary part is outside the tolerance, the call
\* raises ValueError carrying the largest absolute imaginary part over all
\* entries of the square root (NaN when one is NaN) and returns nothing.
C1_DiagImagRaises ==
    (/\ pc \in {"done", "raised"}
     /\ \E k \in DiagOf(kept) : OutsideTol(kept.im[k]))
        => /\ Raised("ValueError")
           /\ IsLargestImag(err.m, kept)
           /\ value = <<>>

C1_Witness ==
    /\ Raised("ValueError")
    /\ \E k \in DiagOf(kept) : kept.im[k] = Fin(-(Atol + 1))
    /\ \E k \in 1..Len(kept.im) : k \notin DiagOf(kept) /\ kept.im[k].v > Atol + 1
    /\ err.m = Fin(Atol + 2)

\* (sigma1 + eps*I)(sigma2 + eps*I) of the covariances as passed in.
RegularizedProduct ==
    LET a == args.sigma1.data
        b == args.sigma2.data
    IN IF Len(a) = 1 THEN <<(a[1] + Eps) * (b[1] + Eps)>>
       ELSE <<(a[1] + Eps) * (b[1] + Eps) + a[2] * b[3],
              (a[1] + Eps) * b[2] + a[2] * (b[4] + Eps),
              a[3] * (b[1] + Eps) + (a[4] + Eps) * b[3],
              a[3] * b[2] + (a[4] + Eps) * (b[4] + Eps)>>

\* sigma1 * sigma2 of the covariances as passed in.
PlainProduct ==
    LET a == args.sigma1.data
        b == args.sigma2.data
    IN IF Len(a) = 1 THEN <<a[1] * b[1]>>
       ELSE <<a[1] * b[1] + a[2] * b[3], a[1] * b[2] + a[2] * b[4],
              a[3] * b[1] + a[4] * b[3], a[3] * b[2] + a[4] * b[4]>>

HasNonFinite(mat) == \E k \in 1..Len(mat.re) : mat.re[k].nan \/ mat.im[k].nan

\* C2: sqrtm is called at most twice; the second call is made exactly when
\* the first result has a non-finite entry, on (sigma1 + eps*I)(sigma2 + eps*I);
\* a retry result that is still non-finite is not retried and only the
\* imaginary check can still raise.
C2_RetryOnce ==
    /\ [](/\ Len(calls) <= 2
          /\ Len(calls) = 2 => calls[2].data = RegularizedProduct)
    /\ [][/\ pc = "sqrt1" => (Len(calls') = 2 <=> HasNonFinite(kept))
          /\ pc = "sqrt2" =>
                /\ calls' = calls
                /\ \/ pc' = "done"
                   \/ /\ pc' = "raised" /\ err'.type = "ValueError"
                      /\ kept.cplx
                      /\ \E k \in DiagOf(kept) : OutsideTol(kept.im[k])]_vars

C2_Witness ==
    /\ Returned
    /\ Len(calls) = 2
    /\ HasNonFinite(kept)
    /\ Len(out) = 1

TraceIn(s) == IF Len(s.data) = 1 THEN s.data[1] ELSE s.data[1] + s.data[4]

SquaredNorm(a, b) ==
    IF Len(a) = 1 THEN (a[1] - b[1]) * (a[1] - b[1])
    ELSE (a[1] - b[1]) * (a[1] - b[1]) + (a[2] - b[2]) * (a[2] - b[2])

\* C4: a returned value is ||mu1 - mu2||^2 + Tr(sigma1) + Tr(sigma2) - 2*Tr(S)
\* with sigma1, sigma2 as passed in (also after the retry) and S the square
\* root of sigma1*sigma2, or of (sigma1 + eps*I)(sigma2 + eps*I) after a retry.
C4_ClosedForm ==
    Returned =>
        /\ calls[1].data = PlainProduct
        /\ Len(calls) = 2 => calls[2].data = RegularizedProduct
        /\ kept.shape = calls[Len(calls)].shape
        /\ LET base == SquaredNorm(args.mu1.data, args.mu2.data)
                         + One * TraceIn(args.sigma1) + One * TraceIn(args.sigma2)
           IN IF \E k \in DiagOf(kept) : kept.re[k].nan
              THEN value = <<NaN>>
              ELSE value = <<Fin(base - 2 * One *
                                (IF Len(kept.re) = 1 THEN kept.re[1].v
                                 ELSE kept.re[1].v + kept.re[4].v))>>

C4_Witness ==
    /\ Returned
    /\ Len(calls) = 2
    /\ args.mu1 # args.mu2
    /\ TraceIn(args.sigma1) > 0
    /\ Len(kept.re) = 4
    /\ ~value[1].nan /\ value[1].v # 0

\* Shapes after np.atleast_1d / np.atleast_2d.
Shape1d(sh) == IF sh = <<>> THEN <<1>> ELSE sh
Shape2d(sh) == IF sh = <<>> THEN <<1, 1>> ELSE IF Len(sh) = 1 THEN <<1, sh[1]>> ELSE sh

ShapesDiffer ==
    \/ Shape1d(args.mu1.shape) # Shape1d(args.mu2.shape)
    \/ Shape2d(args.sigma1.shape) # Shape2d(args.sigma2.shape)

\* C5: when the promoted shapes of the means or of the covariances differ,
\* the call fails with an assertion error before the difference of the means
\* or any square root is computed, and returns nothing.
C5_ShapeAssert ==
    (pc # "start" /\ ShapesDiffer)
        => /\ Raised("AssertionError")
           /\ diff = <<>> /\ calls = <<>> /\ covmean = NoMat
           /\ value = <<>>

C5_Witness ==
    /\ Raised("AssertionError")
    /\ args.mu1.shape = <<>> /\ args.mu2.shape = <<1>>
    /\ args.sigma1.shape = <<>> /\ args.sigma2.shape = <<2, 2>>

\* C7: the square root whose trace enters a returned value is real: a complex
\* root is accepted only with all diagonal imaginary parts within 1e-3 of 0,
\* and is then replaced by its real part; a real root is used unchanged.
C7_RealRoot ==
    Returned =>
        /\ ~covmean.cplx
        /\ \A k \in 1..Len(covmean.im) : covmean.im[k] = Fin(0)
        /\ covmean.re = kept.re
        /\ kept.cplx => \A k \in DiagOf(kept) : ~OutsideTol(kept.im[k])
        /\ ~kept.cplx => covmean = kept

C7_Witness ==
    /\ Returned
    /\ kept.cplx
    /\ \E k \in DiagOf(kept) : kept.im[k] = Fin(Atol)
    /\ covmean # kept

\* The call compares a distribution with itself and sqrtm has just returned
\* the covariance itself, real and finite.
SelfCall ==
    /\ args.mu1 = args.mu2
    /\ args.sigma1 = args.sigma2
    /\ IsPSD(args.sigma1)
    /\ Len(calls) = 1
    /\ ~kept.cplx
    /\ kept.re = [k \in 1..Len(args.sigma1.data) |-> Fin(args.sigma1.data[k])]

\* C9: for equal means and equal symmetric positive semi-definite covariances
\* whose product has the exact finite real square root sigma, the call
\* returns 0, without the retry and without raising.
C9_SelfDistanceZero ==
    [][(pc = "sqrt1" /\ SelfCall)
          => /\ pc' = "done"
             /\ value' = <<Fin(0)>>
             /\ calls' = calls /\ out' = <<>>
             /\ err' = NoErr]_vars

C9_Witness ==
    /\ Returned
    /\ SelfCall
    /\ args.sigma1.data = <<MaxVal, MaxVal, MaxVal, MaxVal>>
    /\ args.mu1.data = <<0, MaxVal>>
    /\ value = <<Fin(0)>>

----------------------------------------------------------------------------
(* Properties of calculate_activation_statistics *)

\* Side of a covariance: np.cov returns a 0-d array for a single feature.
Side(sh) == IF sh = <<>> THEN 1 ELSE sh[1]

\* C3: each returned mean is taken across the N samples and has one entry per
\* feature dimension (length D), each returned covariance is D x D, so the
\* length of every mean equals the side of its covariance matrix.
C3_MeanPerFeature ==
    spc = "returned" =>
        /\ ret.mu1 = <<true_data.cols>> /\ Side(ret.s1) = true_data.cols
        /\ ret.mu2 = <<ae_data.cols>> /\ Side(ret.s2) = ae_data.cols
        /\ ret.mu1[1] = Side(ret.s1) /\ ret.mu2[1] = Side(ret.s2)

\* C6: every batch fetched contributes exactly one block of reference features
\* (the features of that batch's images) and one block of generated features
\* (config.batch rows of features): after k batches both lists hold k blocks,
\* and at the end both stacked matrices have config.batch * len(dataloader) rows.
C6_OneBlockPerBatch ==
    /\ spc = "loop" => Len(true_vecs) = it /\ Len(ae_vecs) = it
    /\ \A i \in 1..Len(true_vecs) :
          true_vecs[i].rows * true_vecs[i].cols = dataloader[i] * feat
    /\ \A i \in 1..Len(ae_vecs) :
          ae_vecs[i].rows = config.batch /\ ae_vecs[i].cols = feat
    /\ spc \in {"stacked", "returned"} =>
          /\ Len(true_vecs) = Len(dataloader) /\ Len(ae_vecs) = Len(dataloader)
          /\ true_data.rows = config.batch * Len(dataloader)
          /\ ae_data.rows = true_data.rows

C6_Witness ==
    /\ spc = "returned"
    /\ config.batch = 2 /\ Len(dataloader) = 2
    /\ Len(true_vecs) = 2 /\ Len(ae_vecs) = 2
    /\ true_data.rows = 4 /\ ae_data.rows = 4

NanBlocks == {i \in 1..Len(ae_vecs) : ae_vecs[i].nan}

\* C8: NaN in the reconstructed images is only printed (size and count): the
\* batch still gets its generated block, nothing is raised for it, and the
\* two lists stay equally long for every sequence of batches.
C8_NanOnlyReported ==
    /\ spc = "loop" => Len(ae_vecs) = Len(true_vecs)
    /\ spc = "ae" => Len(ae_vecs) + 1 = Len(true_vecs)
    /\ spc \in {"loop", "stack", "stacked", "returned"} =>
          Len(printed) = Cardinality(NanBlocks)
    /\ \A i \in 1..Len(printed) :
          printed[i].size = config.batch /\ printed[i].nan_values > 0
    /\ spc = "raised" => serr \in {"reshape", "stack"}

C8_Witness ==
    /\ spc = "returned"
    /\ Len(printed) = 1
    /\ Len(true_vecs) = 2 /\ Len(ae_vecs) = 2
    /\ ae_vecs[1].nan /\ ~ae_vecs[2].nan

====
